---- MODULE Spec2Model ----
(***************************************************************************)
(* Model of professional_ai_automation.py: the process-wide dictionaries   *)
(* test_config / test_status / test_results, the stop_event flag, the two  *)
(* persisted JSON documents, the HTTP handlers and the background run of   *)
(* ProfessionalTestController.                                             *)
(*                                                                         *)
(* Python dictionaries are functions from key strings to values: a key in  *)
(* a dictionary is a member of the function's DOMAIN.  A request body is   *)
(* the sequence of its <<key, value>> pairs in document order.             *)
(* Each request handler is one atomic action.  The background run is cut   *)
(* at its suspension points: thread start, `await agent.run()` and the     *)
(* `await asyncio.sleep(0.2)` between processed history steps.             *)
(* Out of the model: console prints, the log_message events and the        *)
(* entries of a controller's execution_log (one element of execution_logs  *)
(* stands for the log of one controller), Laminar tracing, and every       *)
(* timestamp but the ones the bug identifiers are built from (the clock     *)
(* `now`, in seconds).                                                      *)
(***************************************************************************)
EXTENDS Integers, Sequences, FiniteSets, TLC

\* ------------------------------------------------------------------ bounds
\* Number of background threads alive at once that the model follows.
MaxRuns == 2
\* Longest agent history the model follows (the code asks for max_steps=8).
MaxSteps == 2
\* Number of clock seconds that pass while the model follows the process.
MaxClock == 1
\* Number of events the model keeps of what the followed subscriber received.
MaxInbox == 4
\* Longest narrative handed to parseBugReports, in segments.
MaxSegments == 3

\* ------------------------------------------------------------- value sets
Url == "https://demoblaze.com/"
Key == "k"
Key2 == "k2"
Focus == "about_us"
\* google/openai/groq/ollama are the providers create_llm knows; "azure" and
\* "laminar" stand for the values it does not know ("laminar" is the one
\* whose "<provider>_api_key" is a key of test_config).
Providers == {"google", "openai", "groq", "ollama", "laminar", "azure"}

VARIABLES
    booted,               \* the __main__ block has loaded the persisted files
    LAMINAR_AVAILABLE,    \* the import of lmnr / browser_use succeeded
    test_config,          \* module global dict
    test_status,          \* module global dict
    test_results,         \* module global dict
    stop_event,           \* threading.Event: TRUE when set
    config_file,          \* professional_test_config.json: <<>> or <<doc>>
    results_file,         \* professional_test_results.json: <<>> or <<doc>>
    runs,                 \* background threads, by slot
    response,             \* the answer given by the step just taken
    emitted,              \* the socketio events that step emitted, in order
    ended,                \* how a background run ended in that step, if one did
    now,                  \* datetime.now(), in whole seconds since the start
    snapshot,             \* history: the state at the last save_results request
                          \* and the kinds of steps taken since
    inbox,                \* the names of the first events the subscriber that
                          \* connected last has received; <<>> before any connect
    stop_pending,         \* history: the runs that were active at a stop request
                          \* and have not ended since
    narrative,            \* the text handed to parseBugReports, line by line
    parsed                \* what parseBugReports returned for it, if called

vars == <<booted, LAMINAR_AVAILABLE, test_config,
          test_status, test_results, stop_event, config_file, results_file,
          runs, response, emitted, ended, now, snapshot, inbox, stop_pending,
          narrative, parsed>>

Slots == 1..MaxRuns

\* ------------------------------------------------------- module-level state
DefaultStatus ==
    [is_running |-> FALSE, is_paused |-> FALSE, current_test_case |-> 0,
     total_test_cases |-> 0, progress_percentage |-> 0, current_url |-> "",
     status_message |-> "Ready for professional testing",
     current_focus_area |-> "", test_coverage |-> {}]

\* The fields of test_config that decide control flow.  model, headless,
\* custom_prompt and the window size only feed the external browser session
\* and prompt and are left out.  The dictionary has no "test_focus" key.
DefaultConfig ==
    [website_url |-> Url, provider |-> "google", google_api_key |-> "",
     openai_api_key |-> "", groq_api_key |-> "", laminar_api_key |-> "",
     api_keys_configured |-> FALSE]

EmptyResults ==
    [test_cases |-> <<>>, bug_reports |-> <<>>, test_suites |-> <<>>,
     coverage_reports |-> <<>>, execution_logs |-> <<>>,
     recommendations |-> <<>>]

\* processed: the history steps the loop has processed so far, each with
\* whether its action and its error were set (kept for the properties).
IdleRun ==
    [pc |-> "idle", i |-> 0, test_steps |-> <<>>, bug_reports |-> <<>>,
     invocations |-> 0, processed |-> <<>>]

\* ended when no run ended in the step, and when the run of slot r ended
\* with an outcome: "completed", "stopped" (it returned after it saw
\* stop_event set) or "errored" (an exception reached the suite).
NoneEnded == [run |-> 0, outcome |-> "none"]
Ended(r, outcome) == [run |-> r, outcome |-> outcome]

NoResponse == [op |-> "none", code |-> 0, status |-> ""]

\* snapshot before any save_results request, and after a step of a kind:
\* "config" (update_config), "pause", "clear", "sample", "load", or "other"
\* (start, stop, a step of a background run).
NoSnapshot == [state |-> <<>>, ops |-> {}]
Touched(kind) ==
    IF snapshot.state = <<>> THEN snapshot
    ELSE [snapshot EXCEPT !.ops = @ \cup {kind}]

\* ----------------------------------------------------------------- helpers
\* dict.update(other)
Update(d, other) ==
    [k \in (DOMAIN d) \cup (DOMAIN other) |->
        IF k \in DOMAIN other THEN other[k] ELSE d[k]]

\* d[key] = value
SetKey(d, key, value) ==
    [k \in (DOMAIN d) \cup {key} |-> IF k = key THEN value ELSE d[k]]

\* `not test_config.get(name)` for a string-valued key
Missing(cfg, name) == name \notin DOMAIN cfg \/ cfg[name] = ""

\* f"{provider}_api_key"
ApiKeyName(provider) == provider \o "_api_key"

Ev(name, data) == [event |-> name, data |-> data]

\* What the followed subscriber has received after the step: the events the
\* step emitted reach it once it is connected.
EventNames(evs) == [k \in 1..Len(evs) |-> evs[k].event]
Cap(names) == IF Len(names) > MaxInbox THEN SubSeq(names, 1, MaxInbox) ELSE names
Delivered == IF inbox = <<>> THEN inbox ELSE Cap(inbox \o EventNames(emitted'))

\* save_config_to_file
save_config_to_file(cfg) == <<cfg>>

\* save_results_to_file that leaves test_status out of the document.
save_results_to_file_NoStatus(st, res, cfg) ==
    <<[test_status |-> DefaultStatus, test_results |-> res, test_config |-> cfg]>>

\* save_results_to_file (saved_time is not tracked)
save_results_to_file(st, res, cfg) ==
    <<[test_status |-> st, test_results |-> res, test_config |-> cfg]>>

\* --------------------------------------------------------------- start-up
\* The documents that may be on disk when the process starts: none; or a
\* configuration written by an earlier session, with a test_focus key and a
\* Laminar key; or that configuration and the results that session saved
\* after a run with one failed step.
SavedConfig ==
    Update(DefaultConfig, [test_focus |-> Focus, laminar_api_key |-> Key])
SavedResults ==
    [test_status |->
        [DefaultStatus EXCEPT !.current_url = Url,
                              !.status_message = "Professional testing completed",
                              !.current_focus_area = Focus,
                              !.test_coverage = {<<"Functional Testing", 85>>}],
     test_results |->
        [EmptyResults EXCEPT
            !.test_cases = <<[test_id |-> "BROWSER_TEST_001", status |-> "FAILED",
                              test_steps |-> <<[step_number |-> 1, status |-> "FAILED"]>>]>>,
            !.bug_reports = <<[bug_id |-> <<"BUG", 0, 0>>, title |-> "Test Step Failed",
                               severity |-> "MEDIUM", category |-> "Functional"]>>,
            !.coverage_reports = <<[coverage |-> {<<"Functional Testing", 85>>}]>>,
            !.execution_logs = <<"execution_log">>],
     test_config |-> SavedConfig]
StartupFiles ==
    { <<<<>>, <<>>>>, <<<<SavedConfig>>, <<>>>>, <<<<SavedConfig>>, <<SavedResults>>>> }

Init ==
    /\ booted = FALSE
    /\ LAMINAR_AVAILABLE \in BOOLEAN
    /\ test_config = DefaultConfig
    /\ test_status = DefaultStatus
    /\ test_results = EmptyResults
    /\ stop_event = FALSE
    /\ \E files \in StartupFiles :
          /\ config_file = files[1]
          /\ results_file = files[2]
    /\ runs = [r \in Slots |-> IdleRun]
    /\ response = NoResponse
    /\ emitted = <<>>
    /\ ended = NoneEnded
    /\ now = 0
    /\ snapshot = NoSnapshot
    /\ inbox = <<>>
    /\ stop_pending = {}
    /\ narrative = <<>>
    /\ parsed = [called |-> FALSE, reports |-> <<>>]

\* load_saved_config
load_saved_config(cfg, file) ==
    IF file # <<>> THEN Update(cfg, file[1]) ELSE cfg

\* load_saved_results: <<test_config, test_status, test_results>> afterwards
load_saved_results(cfg, st, res, file) ==
    IF file # <<>>
    THEN <<Update(cfg, file[1].test_config), Update(st, file[1].test_status),
           file[1].test_results>>
    ELSE <<cfg, st, res>>

\* __main__: load_saved_config(); load_saved_results(); socketio.run(...)
Startup ==
    /\ ~booted
    /\ booted' = TRUE
    /\ LET cfg == load_saved_config(test_config, config_file)
           loaded == load_saved_results(cfg, test_status, test_results, results_file)
       IN  /\ test_config' = loaded[1]
           /\ test_status' = loaded[2]
           /\ test_results' = loaded[3]
    /\ response' = NoResponse
    /\ emitted' = <<>>
    /\ ended' = NoneEnded
    /\ UNCHANGED <<LAMINAR_AVAILABLE, stop_event, config_file, results_file, runs,
                   now, snapshot>>
    /\ UNCHANGED stop_pending
    /\ inbox' = Delivered
    /\ UNCHANGED <<narrative, parsed>>

\* The process ends and is started again: its threads are gone, the module
\* globals are built anew, and __main__ loads the documents on disk.
Restart ==
    /\ booted
    /\ LET cfg == load_saved_config(DefaultConfig, config_file)
           loaded == load_saved_results(cfg, DefaultStatus, EmptyResults,
                                        results_file)
       IN  /\ test_config' = loaded[1]
           /\ test_status' = loaded[2]
           /\ test_results' = loaded[3]
    /\ stop_event' = FALSE
    /\ runs' = [r \in Slots |-> IdleRun]
    /\ response' = [op |-> "restart", code |-> 0, status |-> ""]
    /\ emitted' = <<>>
    /\ ended' = NoneEnded
    /\ snapshot' = NoSnapshot
    /\ stop_pending' = {}
    /\ inbox' = <<>>
    /\ UNCHANGED <<booted, LAMINAR_AVAILABLE, config_file, results_file, now,
                   narrative, parsed>>

\* ------------------------------------------------------- POST /api/start
\* Request bodies over a set of providers: a provider and/or an api_key (in
\* that order), or a website_url alone.
ProviderPart(providers) ==
    {<<>>} \cup {<< <<"provider", p>> >> : p \in providers}
ApiKeyPart == {<<>>, << <<"api_key", Key>> >>, << <<"api_key", "">> >>}
UrlPart == {<< <<"website_url", "">> >>, << <<"website_url", Url>> >>}
\* A body with a key that is no key of test_config.
UnknownPart == {<< <<"provider", "openai">>, <<"report_format", "pdf">> >>}
StartRequests ==
    {a \o b : a \in ProviderPart(Providers), b \in ApiKeyPart} \cup UrlPart
    \cup UnknownPart
\* The request bodies followed together with the background runs.
RunProviders == {"google", "ollama", "laminar"}
RunRequests ==
    {a \o b : a \in ProviderPart(RunProviders), b \in {<<>>, << <<"api_key", Key>> >>}}

HasKey(data, key) == \E n \in 1..Len(data) : data[n][1] = key
ValueOf(data, key) ==
    data[CHOOSE n \in 1..Len(data) : data[n][1] = key][2]

\* The branch taken for an "api_key" entry: the key goes to the provider
\* selected in test_config, and nowhere for any other provider.
RouteApiKey(cfg, value) ==
    IF cfg["provider"] = "google" THEN SetKey(cfg, "google_api_key", value)
    ELSE IF cfg["provider"] = "openai" THEN SetKey(cfg, "openai_api_key", value)
    ELSE IF cfg["provider"] = "groq" THEN SetKey(cfg, "groq_api_key", value)
    ELSE cfg

\* for key, value in data.items(): ...
RECURSIVE MergeLoop(_, _, _)
MergeLoop(cfg, data, n) ==
    IF n > Len(data) THEN cfg
    ELSE LET key == data[n][1]
             value == data[n][2]
             next == IF key = "api_key" /\ value # ""
                     THEN RouteApiKey(cfg, value)
                     ELSE IF key \in DOMAIN cfg THEN SetKey(cfg, key, value)
                     ELSE cfg
         IN  MergeLoop(next, data, n + 1)

\* if data: provider first, then every entry
MergeRequest(cfg, data) ==
    IF data = <<>> THEN cfg
    ELSE MergeLoop(IF HasKey(data, "provider")
                   THEN SetKey(cfg, "provider", ValueOf(data, "provider"))
                   ELSE cfg,
                   data, 1)

\* start_test without its credential check.
StartValidation_NoKeyCheck(cfg) ==
    IF Missing(cfg, "website_url")
    THEN [code |-> 400, status |-> "Website URL is required."]
    ELSE IF ~LAMINAR_AVAILABLE
    THEN [code |-> 500, status |-> "browser-use is required for testing"]
    ELSE IF "test_focus" \notin DOMAIN cfg
    THEN [code |-> 500, status |-> "'test_focus'"]
    ELSE [code |-> 200, status |-> "started"]

\* start_test with a check that refuses a start while a run is active.
StartValidation_OneRunOnly(cfg) ==
    IF Missing(cfg, "website_url")
    THEN [code |-> 400, status |-> "Website URL is required."]
    ELSE IF cfg["provider"] # "ollama" /\ Missing(cfg, ApiKeyName(cfg["provider"]))
    THEN [code |-> 400, status |-> "API key is required."]
    ELSE IF \E r \in Slots : runs[r].pc # "idle"
    THEN [code |-> 400, status |-> "A test is already running."]
    ELSE IF ~LAMINAR_AVAILABLE
    THEN [code |-> 500, status |-> "browser-use is required for testing"]
    ELSE IF "test_focus" \notin DOMAIN cfg
    THEN [code |-> 500, status |-> "'test_focus'"]
    ELSE [code |-> 200, status |-> "started"]

\* The checks of start_test after the merge, in order, and the answer each
\* gives; the last two are the 500 answers (browser-use missing; KeyError
\* raised by test_config["test_focus"] while the Status update is built).
StartValidation(cfg) ==
    IF Missing(cfg, "website_url")
    THEN [code |-> 400, status |-> "Website URL is required."]
    ELSE IF cfg["provider"] # "ollama" /\ Missing(cfg, ApiKeyName(cfg["provider"]))
    THEN [code |-> 400, status |-> "API key is required."]
    ELSE IF ~LAMINAR_AVAILABLE
    THEN [code |-> 500, status |-> "browser-use is required for testing"]
    ELSE IF "test_focus" \notin DOMAIN cfg
    THEN [code |-> 500, status |-> "'test_focus'"]
    ELSE [code |-> 200, status |-> "started"]

\* start_test goes on to reset the state and start the thread only when no
\* check has returned.
StartProceeds(v) == v.code = 200

\* test_status.update({...}) of start_test
StartStatus(st, cfg) ==
    Update(st, [is_running |-> TRUE, is_paused |-> FALSE,
                progress_percentage |-> 0, current_url |-> cfg["website_url"],
                status_message |-> "Initializing...",
                current_focus_area |-> cfg["test_focus"],
                test_coverage |-> {}])

\* stop_event.clear() moved before the checks.
StartStopEvent_ClearFirst(v, flag) == FALSE

\* stop_event after start_test: stop_event.clear() comes after the checks.
StartStopEvent(v, flag) == IF StartProceeds(v) THEN FALSE ELSE flag

FreeSlots == {r \in Slots : runs[r].pc = "idle"}

\* threading.Thread(target=run_professional_test).start()
LaunchRun(rs) ==
    LET r == CHOOSE x \in FreeSlots : \A y \in FreeSlots : x <= y
    IN  [rs EXCEPT ![r] = [IdleRun EXCEPT !.pc = "start"]]

\* start_test that validates the merged request first and keeps the
\* Configuration of a rejected request to itself.
start_test_ValidatesFirst(data) ==
    /\ booted
    /\ LET cfg == MergeRequest(test_config, data)
           v == StartValidation(cfg)
       IN  /\ test_config' = IF v.code = 400 THEN test_config ELSE cfg
           /\ config_file' = IF v.code = 400 THEN config_file
                             ELSE save_config_to_file(cfg)
           /\ response' = [op |-> "start", code |-> v.code, status |-> v.status]
           /\ IF StartProceeds(v)
              THEN /\ FreeSlots # {}
                   /\ test_status' = StartStatus(test_status, cfg)
                   /\ test_results' = Update(test_results, EmptyResults)
                   /\ results_file' =
                        save_results_to_file(test_status', test_results', cfg)
                   /\ runs' = LaunchRun(runs)
              ELSE UNCHANGED <<test_status, test_results, results_file, runs>>
           /\ stop_event' = StartStopEvent(v, stop_event)
    /\ emitted' = <<>>
    /\ ended' = NoneEnded
    /\ snapshot' = Touched("other")
    /\ UNCHANGED <<booted, LAMINAR_AVAILABLE, now>>
    /\ UNCHANGED stop_pending
    /\ inbox' = Delivered
    /\ UNCHANGED <<narrative, parsed>>

start_test(data) ==
    /\ booted
    /\ LET cfg == MergeRequest(test_config, data)
           v == StartValidation(cfg)
       IN  /\ test_config' = cfg
           /\ config_file' = save_config_to_file(cfg)
           /\ response' = [op |-> "start", code |-> v.code, status |-> v.status]
           /\ IF StartProceeds(v)
              THEN /\ FreeSlots # {}
                   /\ test_status' = StartStatus(test_status, cfg)
                   /\ test_results' = Update(test_results, EmptyResults)
                   /\ results_file' =
                        save_results_to_file(test_status', test_results', cfg)
                   /\ runs' = LaunchRun(runs)
              ELSE UNCHANGED <<test_status, test_results, results_file, runs>>
           /\ stop_event' = StartStopEvent(v, stop_event)
    /\ emitted' = <<>>
    /\ ended' = NoneEnded
    /\ snapshot' = Touched("other")
    /\ UNCHANGED <<booted, LAMINAR_AVAILABLE, now>>
    /\ UNCHANGED stop_pending
    /\ inbox' = Delivered
    /\ UNCHANGED <<narrative, parsed>>

\* -------------------------------------------------------- POST /api/stop
\* stop_test that leaves is_running as it is.
StopStatus_KeepsRunning(st) ==
    Update(st, [is_paused |-> FALSE,
                status_message |-> "Stopping professional testing..."])

\* test_status.update({...}) of stop_test
StopStatus(st) ==
    Update(st, [is_running |-> FALSE, is_paused |-> FALSE,
                status_message |-> "Stopping professional testing..."])

stop_test ==
    /\ booted
    /\ stop_event' = TRUE
    /\ test_status' = StopStatus(test_status)
    /\ emitted' = <<Ev("status_update", test_status'),
                    Ev("test_stopped", [status |-> "stopping"])>>
    /\ response' = [op |-> "stop", code |-> 200, status |-> "stopping"]
    /\ ended' = NoneEnded
    /\ snapshot' = Touched("other")
    /\ UNCHANGED <<booted, LAMINAR_AVAILABLE, test_config,
                   test_results, config_file, results_file, runs, now>>
    /\ stop_pending' = {r \in Slots : runs[r].pc # "idle"}
    /\ inbox' = Delivered
    /\ UNCHANGED <<narrative, parsed>>

\* ------------------------------------------------------ POST /api/config
\* Request bodies: a provider, an api_key, or both in either order.
ConfigProviders == {"google", "openai", "groq"}
ConfigRequests ==
    LET P == {<<"provider", p>> : p \in ConfigProviders}
        K == {<<"api_key", k>> : k \in {Key, Key2}}
    IN  {<<>>} \cup {<<x>> : x \in P \cup K}
        \cup {<<x, y>> : x \in P, y \in K} \cup {<<y, x>> : x \in P, y \in K}

\* update_config whose loop takes the entries as they come, the provider
\* not set beforehand.
ConfigMerge_InOrder(cfg, data) == MergeLoop(cfg, data, 1)

\* if data: provider first, then every entry (the code of start_test again)
ConfigMerge(cfg, data) ==
    IF data = <<>> THEN cfg
    ELSE MergeLoop(IF HasKey(data, "provider")
                   THEN SetKey(cfg, "provider", ValueOf(data, "provider"))
                   ELSE cfg,
                   data, 1)

\* test_config["api_keys_configured"] = True / False
KeysConfigured(cfg) ==
    SetKey(cfg, "api_keys_configured",
           cfg["google_api_key"] # "" \/ cfg["openai_api_key"] # ""
           \/ cfg["groq_api_key"] # "")

update_config(data) ==
    /\ booted
    /\ LET cfg == IF data = <<>> THEN test_config
                  ELSE KeysConfigured(ConfigMerge(test_config, data))
       IN  /\ test_config' = cfg
           /\ config_file' = save_config_to_file(cfg)
    /\ response' = [op |-> "config", code |-> 200, status |-> "updated"]
    /\ emitted' = <<>>
    /\ ended' = NoneEnded
    /\ snapshot' = Touched("config")
    /\ UNCHANGED <<booted, LAMINAR_AVAILABLE, test_status, test_results,
                   stop_event, results_file, runs, now>>
    /\ UNCHANGED stop_pending
    /\ inbox' = Delivered
    /\ UNCHANGED <<narrative, parsed>>

\* ------------------------------------------------------- POST /api/pause
\* pause_test that toggles whether or not a test is running.
PauseOutcome_NoRunningCheck(st) ==
    IF st.is_paused
    THEN [code |-> 200, status |-> "resumed",
          st |-> [st EXCEPT !.is_paused = FALSE,
                            !.status_message = "Professional testing resumed"]]
    ELSE [code |-> 200, status |-> "paused",
          st |-> [st EXCEPT !.is_paused = TRUE,
                            !.status_message = "Professional testing paused"]]

\* The answer of pause_test and the Status it leaves.
PauseOutcome(st) ==
    IF st.is_running
    THEN IF st.is_paused
         THEN [code |-> 200, status |-> "resumed",
               st |-> [st EXCEPT !.is_paused = FALSE,
                                 !.status_message = "Professional testing resumed"]]
         ELSE [code |-> 200, status |-> "paused",
               st |-> [st EXCEPT !.is_paused = TRUE,
                                 !.status_message = "Professional testing paused"]]
    ELSE [code |-> 400, status |-> "No test running", st |-> st]

pause_test ==
    /\ booted
    /\ LET out == PauseOutcome(test_status)
       IN  /\ test_status' = out.st
           /\ response' = [op |-> "pause", code |-> out.code, status |-> out.status]
    /\ emitted' = <<>>
    /\ ended' = NoneEnded
    /\ snapshot' = Touched("pause")
    /\ UNCHANGED <<booted, LAMINAR_AVAILABLE, test_config, test_results,
                   stop_event, config_file, results_file, runs, now>>
    /\ UNCHANGED stop_pending
    /\ inbox' = Delivered
    /\ UNCHANGED <<narrative, parsed>>

\* ------------------------------------------- GET /api/load_sample_data
SampleCoverage ==
    {<<"Functional Testing", 85>>, <<"UI/UX Testing", 90>>,
     <<"Responsiveness Testing", 75>>, <<"Accessibility Testing", 60>>,
     <<"Performance Testing", 80>>, <<"Security Testing", 70>>,
     <<"Browser Compatibility", 85>>, <<"Content Testing", 95>>}

\* The dictionary load_sample_data passes to test_results.update.  The
\* bug_id "BUG_20241201_143022_1" carries a second before the process began.
SampleData ==
    [test_cases |->
        <<[test_id |-> "BATCH_ABOUT_US_CONTENT_ELEMENTS", status |-> "PASSED",
           test_steps |-> <<[step_number |-> 1, status |-> "PASSED"],
                            [step_number |-> 2, status |-> "PASSED"]>>],
          [test_id |-> "BATCH_ABOUT_US_LAYOUT_ELEMENTS", status |-> "FAILED",
           test_steps |-> <<[step_number |-> 1, status |-> "PASSED"],
                            [step_number |-> 2, status |-> "FAILED"]>>]>>,
     bug_reports |->
        <<[bug_id |-> <<"BUG", -1, 1>>,
           title |-> "Test failure in Batch Test: Layout Elements on About Us",
           severity |-> "MEDIUM", category |-> "UI Layout"]>>,
     coverage_reports |-> <<[coverage |-> SampleCoverage]>>,
     recommendations |->
        <<"Increase test coverage for Accessibility Testing (currently 60.0%)",
          "Increase test coverage for Security Testing (currently 70.0%)",
          "Focus on fixing 1 high-severity bugs first">>]

load_sample_data ==
    /\ booted
    /\ test_results' = Update(test_results, SampleData)
    /\ results_file' = save_results_to_file(test_status, test_results', test_config)
    /\ emitted' = <<Ev("results_update", test_results')>>
    /\ response' = [op |-> "load_sample_data", code |-> 200,
                    status |-> "sample_data_loaded"]
    /\ ended' = NoneEnded
    /\ snapshot' = Touched("sample")
    /\ UNCHANGED <<booted, LAMINAR_AVAILABLE, test_config, test_status,
                   stop_event, config_file, runs, now>>
    /\ UNCHANGED stop_pending
    /\ inbox' = Delivered
    /\ UNCHANGED <<narrative, parsed>>

\* ---------------------------------------------- GET /api/save_results
save_results ==
    /\ booted
    /\ results_file' = save_results_to_file(test_status, test_results, test_config)
    /\ response' = [op |-> "save_results", code |-> 200, status |-> "saved"]
    /\ emitted' = <<>>
    /\ ended' = NoneEnded
    /\ snapshot' = [state |-> <<[test_status |-> test_status,
                                 test_results |-> test_results,
                                 test_config |-> test_config]>>,
                    ops |-> {}]
    /\ UNCHANGED <<booted, LAMINAR_AVAILABLE, test_config, test_status,
                   test_results, stop_event, config_file, runs, now>>
    /\ UNCHANGED stop_pending
    /\ inbox' = Delivered
    /\ UNCHANGED <<narrative, parsed>>

\* ---------------------------------------------- GET /api/load_results
\* load_results that opens the file without looking for it first: the
\* exception is answered 500.
LoadAnswer_NoExistsCheck(file) ==
    IF file # <<>> THEN [code |-> 200, status |-> "loaded"]
    ELSE [code |-> 500, status |-> "No such file or directory"]

\* The answer of load_results.
LoadAnswer(file) ==
    IF file # <<>> THEN [code |-> 200, status |-> "loaded"]
    ELSE [code |-> 404, status |-> "No results file found"]

load_results ==
    /\ booted
    /\ response' = [op |-> "load_results", code |-> LoadAnswer(results_file).code,
                    status |-> LoadAnswer(results_file).status]
    /\ IF results_file # <<>>
       THEN /\ test_results' = results_file[1].test_results
            /\ test_status' = Update(test_status, results_file[1].test_status)
            /\ test_config' = Update(test_config, results_file[1].test_config)
            /\ emitted' = <<Ev("results_update", test_results'),
                            Ev("status_update", test_status')>>
       ELSE /\ emitted' = <<>>
            /\ UNCHANGED <<test_results, test_status, test_config>>
    /\ ended' = NoneEnded
    /\ UNCHANGED <<booted, LAMINAR_AVAILABLE, stop_event, config_file,
                   results_file, runs, now, snapshot>>
    /\ UNCHANGED stop_pending
    /\ inbox' = Delivered
    /\ UNCHANGED <<narrative, parsed>>

\* --------------------------------------------- GET /api/clear_results
\* clear_results that resets Status only when no test is running.
clear_results_KeepsRunningStatus ==
    /\ booted
    /\ test_results' = Update(test_results, EmptyResults)
    /\ test_status' = IF test_status.is_running THEN test_status
                      ELSE Update(test_status, DefaultStatus)
    /\ results_file' = save_results_to_file(test_status', test_results', test_config)
    /\ emitted' = <<Ev("results_update", test_results'),
                    Ev("status_update", test_status')>>
    /\ response' = [op |-> "clear_results", code |-> 200, status |-> "cleared"]
    /\ ended' = NoneEnded
    /\ snapshot' = Touched("clear")
    /\ UNCHANGED <<booted, LAMINAR_AVAILABLE, test_config, stop_event,
                   config_file, runs, now>>
    /\ UNCHANGED stop_pending
    /\ inbox' = Delivered
    /\ UNCHANGED <<narrative, parsed>>

clear_results ==
    /\ booted
    /\ test_results' = Update(test_results, EmptyResults)
    /\ test_status' = Update(test_status, DefaultStatus)
    /\ results_file' = save_results_to_file(test_status', test_results', test_config)
    /\ emitted' = <<Ev("results_update", test_results'),
                    Ev("status_update", test_status')>>
    /\ response' = [op |-> "clear_results", code |-> 200, status |-> "cleared"]
    /\ ended' = NoneEnded
    /\ snapshot' = Touched("clear")
    /\ UNCHANGED <<booted, LAMINAR_AVAILABLE, test_config, stop_event,
                   config_file, runs, now>>
    /\ UNCHANGED stop_pending
    /\ inbox' = Delivered
    /\ UNCHANGED <<narrative, parsed>>

\* ------------------------------------------------- socketio: connect
\* handle_connect that sends the snapshot and no connected event.
ConnectEvents_SnapshotOnly(st, res) ==
    <<Ev("status_update", st), Ev("results_update", res)>>

\* The events handle_connect emits to the connecting client.
ConnectEvents(st, res) ==
    <<Ev("connected", [status |-> "connected"]),
      Ev("status_update", st), Ev("results_update", res)>>

handle_connect ==
    /\ booted
    /\ emitted' = ConnectEvents(test_status, test_results)
    /\ inbox' = Cap(EventNames(emitted'))
    /\ response' = [op |-> "connect", code |-> 0, status |-> ""]
    /\ ended' = NoneEnded
    /\ UNCHANGED <<booted, LAMINAR_AVAILABLE, test_config, test_status,
                   test_results, stop_event, config_file, results_file, runs,
                   now, snapshot, stop_pending, narrative, parsed>>

\* ------------------------------------------- ProfessionalTestController
Coverage85 == {<<"Functional Testing", 85>>}

\* create_llm: "ok", or the message of the ValueError it raises
create_llm(cfg) ==
    LET provider == cfg["provider"]
        noKey == Missing(cfg, ApiKeyName(provider))
    IN  IF ~LAMINAR_AVAILABLE THEN "browser-use is not installed"
        ELSE IF provider = "google"
        THEN (IF noKey THEN "Google API key is required" ELSE "ok")
        ELSE IF provider = "openai"
        THEN (IF noKey THEN "OpenAI API key is required" ELSE "ok")
        ELSE IF provider = "groq"
        THEN (IF noKey THEN "Groq API key is required" ELSE "ok")
        ELSE IF provider = "ollama" THEN "ok"
        ELSE "Unsupported provider"

\* The bug report the except clause of run_professional_test_suite appends;
\* its bug_id is f"ERROR_{now:%Y%m%d_%H%M%S}".
CriticalReport(reason) ==
    [bug_id |-> <<"ERROR", now>>, title |-> "Test Suite Execution Error",
     description |-> "Professional test suite execution failed: " \o reason,
     severity |-> "CRITICAL", category |-> "Technical"]

\* The bug report _run_direct_browser_test writes for history step i
\* (0-based); its bug_id is f"BUG_{now:%Y%m%d_%H%M%S}_{i}".
StepReport(i) ==
    [bug_id |-> <<"BUG", now, i>>, title |-> "Test Step Failed",
     severity |-> "MEDIUM", category |-> "Functional"]

\* The step record for history step i (0-based).
StepRecord(i, hasError) ==
    [step_number |-> i + 1,
     status |-> IF hasError THEN "FAILED" ELSE "PASSED"]

\* A finally clause that emits no test_completed.
FinallyEvents_NoCompleted(st) == <<Ev("status_update", st)>>

\* The finally clause of run_professional_test_suite: the Status it leaves
\* and the events it emits.
FinallyStatus(st) ==
    [st EXCEPT !.is_running = FALSE,
               !.status_message = "Professional testing completed"]
FinallyEvents(st) ==
    <<Ev("status_update", st), Ev("test_completed", [status |-> "completed"])>>

\* An except clause that only logs.
ExceptReports_Dropped(bugs, reason) == bugs

\* The bug reports after the except clause of run_professional_test_suite.
ExceptReports(bugs, reason) == Append(bugs, CriticalReport(reason))

\* An exception reaches run_professional_test_suite: its except clause, then
\* its finally clause.  st: the Status the step has written so far; evs: the
\* events it has emitted so far.
SuiteFailed(r, st, evs, reason) ==
    LET st1 == FinallyStatus(st)
    IN  /\ test_results' =
              [test_results EXCEPT !.bug_reports = ExceptReports(@, reason)]
        /\ test_status' = st1
        /\ emitted' = evs \o FinallyEvents(st1)
        /\ runs' = [runs EXCEPT ![r] = IdleRun]
        /\ ended' = Ended(r, "errored")
        /\ stop_pending' = stop_pending \ {r}
        /\ UNCHANGED results_file

\* A history that keeps the latest snapshot only.
RecordCoverage_Overwrite(reports, coverage) == <<[coverage |-> coverage]>>

\* test_results["coverage_reports"].append({"timestamp": ..., "coverage": ...})
RecordCoverage(reports, coverage) == Append(reports, [coverage |-> coverage])

\* _process_test_results(results) and the finally clause: the end of a run
\* that did not raise.
\* results: [test_cases, bug_reports, summary (BOOLEAN: the key is present)].
SuiteReturned(r, st, evs, results, outcome) ==
    LET res1 == [test_results EXCEPT
                    !.test_cases = results.test_cases,
                    !.bug_reports = results.bug_reports,
                    !.execution_logs = Append(@, "execution_log"),
                    !.coverage_reports =
                        IF results.summary
                        THEN RecordCoverage(@, Coverage85) ELSE @]
        st1 == IF results.summary
               THEN [st EXCEPT !.test_coverage = Coverage85] ELSE st
        st2 == FinallyStatus(st1)
    IN  /\ test_results' = res1
        /\ results_file' = save_results_to_file(st1, res1, test_config)
        /\ test_status' = st2
        /\ emitted' = evs \o <<Ev("results_update", res1)>> \o FinallyEvents(st2)
        /\ runs' = [runs EXCEPT ![r] = IdleRun]
        /\ ended' = Ended(r, outcome)
        /\ stop_pending' = stop_pending \ {r}

\* No check before agent.run().
StopBeforeAgent_Ignored == FALSE

\* The check `if stop_event.is_set()` before agent.run().
StopBeforeAgent == stop_event

\* run_professional_test_suite from its first line up to the call of
\* agent.run(), taken by a thread that is at `at`.
\* extRaises: BrowserSession(...) or Agent(...) raises.
RunBeginAt(r, extRaises, at) ==
    /\ booted
    /\ runs[r].pc = at
    /\ LET cfg == test_config
           st1 == [test_status EXCEPT
                     !.is_running = TRUE,
                     !.status_message = "Initializing professional testing framework..."]
       IN  IF "test_focus" \notin DOMAIN cfg
           THEN SuiteFailed(r, st1, <<>>, "'test_focus'")
           ELSE
           LET st2 == [st1 EXCEPT !.current_focus_area = cfg["test_focus"]]
               llm == create_llm(cfg)
           IN  IF llm # "ok"
               THEN SuiteFailed(r, st2, <<>>, llm)
               ELSE IF extRaises
               THEN SuiteFailed(r, st2, <<>>, "browser session or agent failed")
               ELSE IF StopBeforeAgent
               THEN SuiteReturned(r, st2, <<>>,
                                  [test_cases |-> <<>>, bug_reports |-> <<>>,
                                   summary |-> FALSE], "stopped")
               ELSE /\ test_status' = st2
                    /\ emitted' = <<>>
                    /\ runs' = [runs EXCEPT ![r].pc = "agent",
                                            ![r].invocations = @ + 1]
                    /\ ended' = NoneEnded
                    /\ UNCHANGED <<test_results, results_file, stop_pending>>
    /\ response' = NoResponse
    /\ snapshot' = Touched("other")
    /\ UNCHANGED <<booted, LAMINAR_AVAILABLE, test_config, stop_event, config_file,
                   now>>
    /\ inbox' = Delivered
    /\ UNCHANGED <<narrative, parsed>>

\* The thread's first stretch, from the thread start to the call of
\* agent.run(), in one step.
RunBegin(r, extRaises) == RunBeginAt(r, extRaises, "start")

\* The same stretch in two steps, for what other threads see in between:
\* the first two assignments of run_professional_test_suite, then the rest.
RunEnter(r) ==
    /\ booted
    /\ runs[r].pc = "start"
    /\ runs' = [runs EXCEPT ![r].pc = "entered"]
    /\ test_status' =
          [test_status EXCEPT
             !.is_running = TRUE,
             !.status_message = "Initializing professional testing framework..."]
    /\ emitted' = <<>>
    /\ ended' = NoneEnded
    /\ response' = NoResponse
    /\ snapshot' = Touched("other")
    /\ inbox' = Delivered
    /\ UNCHANGED <<booted, LAMINAR_AVAILABLE, test_config, test_results,
                   stop_event, config_file, results_file, now, stop_pending,
                   narrative, parsed>>

RunBeginEntered(r, extRaises) == RunBeginAt(r, extRaises, "entered")

\* agent.run() called again after it raised.
AgentReturn_Retry(r, raises) ==
    /\ booted
    /\ runs[r].pc = "agent"
    /\ runs' = IF raises /\ runs[r].invocations < 2
               THEN [runs EXCEPT ![r].invocations = @ + 1]
               ELSE [runs EXCEPT ![r].pc = "loop"]
    /\ emitted' = <<>>
    /\ ended' = NoneEnded
    /\ response' = NoResponse
    /\ snapshot' = Touched("other")
    /\ inbox' = Delivered
    /\ UNCHANGED <<booted, LAMINAR_AVAILABLE, test_config, test_status,
                   test_results, stop_event, config_file, results_file, now,
                   stop_pending, narrative, parsed>>

\* `history = await agent.run()` returns or raises, and the run goes on to the
\* first check of the loop over the history.
AgentReturn(r, raises) ==
    /\ booted
    /\ runs[r].pc = "agent"
    /\ IF raises
       THEN SuiteFailed(r, test_status, <<>>, "agent.run failed")
       ELSE /\ runs' = [runs EXCEPT ![r].pc = "loop"]
            /\ emitted' = <<>>
            /\ ended' = NoneEnded
            /\ UNCHANGED <<test_status, test_results, results_file, stop_pending>>
    /\ response' = NoResponse
    /\ snapshot' = Touched("other")
    /\ UNCHANGED <<booted, LAMINAR_AVAILABLE, test_config, stop_event, config_file,
                   now>>
    /\ inbox' = Delivered
    /\ UNCHANGED <<narrative, parsed>>

\* The test case _run_direct_browser_test builds from the steps so far.
TestCase(status, steps) ==
    [test_id |-> "BROWSER_TEST_001", status |-> status, test_steps |-> steps]

\* A final status that looks for CRITICAL reports.
FinalStatus_Critical(bugs) ==
    IF \E k \in 1..Len(bugs) : bugs[k].severity = "CRITICAL"
    THEN "FAILED" ELSE "COMPLETED"

\* final_test_case["status"]
FinalStatus(bugs) ==
    IF \E k \in 1..Len(bugs) : bugs[k].severity = "MEDIUM"
    THEN "FAILED" ELSE "COMPLETED"

\* The end of _run_direct_browser_test after the loop, and the rest of the
\* suite; stopped: the loop was left by `break`.
RunFinish(r, stopped) ==
    IF "test_focus" \notin DOMAIN test_config
    THEN SuiteFailed(r, test_status, <<>>, "'test_focus'")
    ELSE SuiteReturned(r, test_status, <<>>,
             [test_cases |-> <<TestCase(FinalStatus(runs[r].bug_reports),
                                        runs[r].test_steps)>>,
              bug_reports |-> runs[r].bug_reports, summary |-> TRUE],
             IF stopped THEN "stopped" ELSE "completed")

\* One iteration of `for i, step in enumerate(history)` up to its sleep.
\* hasAction / hasError: step.action / step.error are set.
RunIteration(r, hasAction, hasError) ==
    LET i == runs[r].i
        steps == IF hasAction
                 THEN Append(runs[r].test_steps, StepRecord(i, hasError))
                 ELSE runs[r].test_steps
        bugs == IF hasError
                THEN Append(runs[r].bug_reports, StepReport(i))
                ELSE runs[r].bug_reports
        res1 == [test_results EXCEPT
                    !.test_cases = <<TestCase("IN_PROGRESS", steps)>>,
                    !.bug_reports = bugs]
    IN  IF "test_focus" \notin DOMAIN test_config
        THEN SuiteFailed(r, test_status, <<>>, "'test_focus'")
        ELSE /\ test_results' = res1
             /\ emitted' = <<Ev("results_update", res1)>>
             /\ runs' = [runs EXCEPT ![r].i = i + 1, ![r].test_steps = steps,
                                     ![r].bug_reports = bugs,
                                     ![r].processed =
                                         Append(@, [action |-> hasAction,
                                                    error |-> hasError])]
             /\ ended' = NoneEnded
             /\ UNCHANGED <<test_status, results_file, stop_pending>>

\* The check `if stop_event.is_set()` at the head of a loop iteration.
StopInLoop == stop_event

\* A loop that goes on to the next step only while the test is not paused.
RunStep_WaitsWhilePaused(r, hasAction, hasError) ==
    /\ booted
    /\ runs[r].pc = "loop"
    /\ runs[r].i < MaxSteps
    /\ ~test_status.is_paused
    /\ IF StopInLoop THEN RunFinish(r, TRUE)
       ELSE RunIteration(r, hasAction, hasError)
    /\ response' = NoResponse
    /\ snapshot' = Touched("other")
    /\ UNCHANGED <<booted, LAMINAR_AVAILABLE, test_config, stop_event, config_file,
                   now>>
    /\ inbox' = Delivered
    /\ UNCHANGED <<narrative, parsed>>

\* The loop over the history, from one sleep to the next, when the history
\* has a further step: the step is processed unless stop_event is set.
RunStep(r, hasAction, hasError) ==
    /\ booted
    /\ runs[r].pc = "loop"
    /\ runs[r].i < MaxSteps
    /\ IF StopInLoop THEN RunFinish(r, TRUE)
       ELSE RunIteration(r, hasAction, hasError)
    /\ response' = NoResponse
    /\ snapshot' = Touched("other")
    /\ UNCHANGED <<booted, LAMINAR_AVAILABLE, test_config, stop_event, config_file,
                   now>>
    /\ inbox' = Delivered
    /\ UNCHANGED <<narrative, parsed>>

\* The loop over the history when the history is exhausted (or empty).
RunExhausted(r) ==
    /\ booted
    /\ runs[r].pc = "loop"
    /\ RunFinish(r, FALSE)
    /\ response' = NoResponse
    /\ snapshot' = Touched("other")
    /\ UNCHANGED <<booted, LAMINAR_AVAILABLE, test_config, stop_event, config_file,
                   now>>
    /\ inbox' = Delivered
    /\ UNCHANGED <<narrative, parsed>>

\* ------------------------------------------------------ parseBugReports
\* The report parser of the specification (section 4.3); the repository's
\* code for it is not among the sources.  A narrative is a sequence of
\* lines; a line has a kind: "header" (## Bug Report), "summary",
\* "description", "expected", "actual" (a bold label followed by text),
\* "steps" (the label **Steps to Reproduce:**), "item" (a line of the steps,
\* character by character), "blank", or "prose" (anything else).
Line(kind, text) == [kind |-> kind, text |-> text]
Item(chars) == [kind |-> "item", chars |-> chars]

\* Leading enumeration markers: digits, punctuation, whitespace.
Markers == {"1", "2", ".", ")", "-", "*", " "}

RECURSIVE StripMarkers(_)
StripMarkers(chars) ==
    IF chars # <<>> /\ Head(chars) \in Markers
    THEN StripMarkers(Tail(chars)) ELSE chars

\* The first position from p on that holds no blank line.
RECURSIVE SkipBlank(_, _)
SkipBlank(lines, p) ==
    IF p <= Len(lines) /\ lines[p].kind = "blank"
    THEN SkipBlank(lines, p + 1) ELSE p

\* The first position from p on that holds neither a step line nor a blank.
RECURSIVE ItemsEnd(_, _)
ItemsEnd(lines, p) ==
    IF p <= Len(lines) /\ lines[p].kind \in {"item", "blank"}
    THEN ItemsEnd(lines, p + 1) ELSE p

\* Position p holds a labelled field of the kind, with text behind the label.
Field(lines, p, kind) ==
    p <= Len(lines) /\ lines[p].kind = kind /\ lines[p].text # ""

\* The steps block split on line breaks, each line without its markers.
StepsOf(lines, from, to) ==
    LET items == SelectSeq(SubSeq(lines, from, to), LAMBDA l : l.kind = "item")
    IN  [k \in 1..Len(items) |-> StripMarkers(items[k].chars)]

\* The template matched at position p: whether it matches in full, where
\* the block ends, and the fields it captures.
MatchBlock(lines, p) ==
    LET p1 == SkipBlank(lines, p + 1)
        p2 == SkipBlank(lines, p1 + 1)
        p3 == SkipBlank(lines, p2 + 1)
        p4 == ItemsEnd(lines, p3 + 1)
        p5 == SkipBlank(lines, p4 + 1)
        ok == /\ lines[p].kind = "header"
              /\ Field(lines, p1, "summary")
              /\ Field(lines, p2, "description")
              /\ p3 <= Len(lines) /\ lines[p3].kind = "steps"
              /\ Field(lines, p4, "expected")
              /\ Field(lines, p5, "actual")
    IN  IF ok
        THEN [ok |-> TRUE, end |-> p5,
              title |-> lines[p1].text, description |-> lines[p2].text,
              steps |-> StepsOf(lines, p3 + 1, p4 - 1),
              expected |-> lines[p4].text, actual |-> lines[p5].text]
        ELSE [ok |-> FALSE]

\* A parser that gives up at the first line that starts no full block.
NextAfterMismatch_GiveUp(lines, p) == Len(lines) + 1

\* A line that starts no full block is skipped silently.
NextAfterMismatch(lines, p) == p + 1

\* The record of the n-th match of a call.
BugRecord(n, m) ==
    [bug_id |-> n, title |-> m.title, description |-> m.description,
     steps_to_reproduce |-> m.steps, expected_behavior |-> m.expected,
     actual_behavior |-> m.actual, severity |-> "Medium",
     category |-> "Functional", status |-> "OPEN"]

RECURSIVE ParseFrom(_, _, _)
ParseFrom(lines, p, acc) ==
    IF p > Len(lines) THEN acc
    ELSE LET m == MatchBlock(lines, p)
         IN  IF m.ok
             THEN ParseFrom(lines, m.end + 1,
                            Append(acc, BugRecord(Len(acc) + 1, m)))
             ELSE ParseFrom(lines, NextAfterMismatch(lines, p), acc)

parseBugReports(lines) == ParseFrom(lines, 1, <<>>)

\* The narratives the model hands to the parser: up to MaxSegments segments,
\* each a block that matches the template (with or without blank lines
\* between its fields), a block that does not (no actual result; an empty
\* summary), a lone header, or a line of prose.
GoodSegments == {"full", "compact"}
Segments == GoodSegments \cup {"no_actual", "empty_summary", "header", "prose"}
SegmentTitle(seg) == IF seg = "full" THEN "Login fails" ELSE "Cart is empty"
SegmentLines(seg) ==
    IF seg = "full"
    THEN <<Line("header", ""), Line("blank", ""),
           Line("summary", "Login fails"), Line("blank", ""),
           Line("description", "The login form rejects a valid user"),
           Line("blank", ""), Line("steps", ""),
           Item(<<"1", ".", " ", "O", "p", "e", "n">>),
           Item(<<"-", " ", "L", "o", "g", " ", "i", "n">>),
           Line("blank", ""),
           Line("expected", "The user is logged in"), Line("blank", ""),
           Line("actual", "An error is shown")>>
    ELSE IF seg = "compact"
    THEN <<Line("header", ""), Line("summary", "Cart is empty"),
           Line("description", "Added items are lost"), Line("steps", ""),
           Item(<<"2", ")", " ", "A", "d", "d">>),
           Line("expected", "The cart holds the item"),
           Line("actual", "The cart is empty")>>
    ELSE IF seg = "no_actual"
    THEN <<Line("header", ""), Line("summary", "Slow page"),
           Line("description", "The page is slow"), Line("steps", ""),
           Item(<<"1", ".", " ", "W", "a", "i", "t">>),
           Line("expected", "The page loads")>>
    ELSE IF seg = "empty_summary"
    THEN <<Line("header", ""), Line("summary", ""),
           Line("description", "No title was given"), Line("steps", ""),
           Item(<<"*", " ", "L", "o", "o", "k">>),
           Line("expected", "A title"), Line("actual", "None")>>
    ELSE IF seg = "header" THEN <<Line("header", "")>>
    ELSE <<Line("prose", "The test finished. FAIL")>>

RECURSIVE LinesOf(_)
LinesOf(segs) ==
    IF segs = <<>> THEN <<>>
    ELSE SegmentLines(Head(segs)) \o LinesOf(Tail(segs))

Narratives == UNION {[1..n -> Segments] : n \in 0..MaxSegments}

\* A call of parseBugReports on the narrative.
parse_bug_reports ==
    /\ ~parsed.called
    /\ parsed' = [called |-> TRUE, reports |-> parseBugReports(LinesOf(narrative))]
    /\ UNCHANGED <<booted, LAMINAR_AVAILABLE, test_config, test_status,
                   test_results, stop_event, config_file, results_file, runs,
                   response, emitted, ended, now, snapshot, inbox,
                   stop_pending, narrative>>

\* The parser alone, over every narrative.
InitParse ==
    /\ booted = FALSE
    /\ LAMINAR_AVAILABLE = TRUE
    /\ test_config = DefaultConfig
    /\ test_status = DefaultStatus
    /\ test_results = EmptyResults
    /\ stop_event = FALSE
    /\ config_file = <<>>
    /\ results_file = <<>>
    /\ runs = [r \in Slots |-> IdleRun]
    /\ response = NoResponse
    /\ emitted = <<>>
    /\ ended = NoneEnded
    /\ now = 0
    /\ snapshot = NoSnapshot
    /\ inbox = <<>>
    /\ stop_pending = {}
    /\ narrative \in Narratives
    /\ parsed = [called |-> FALSE, reports |-> <<>>]

NextParse == parse_bug_reports

SpecParse == InitParse /\ [][NextParse]_vars

\* A second passes on the clock datetime.now() reads.
Tick ==
    /\ booted
    /\ now < MaxClock
    /\ now' = now + 1
    /\ response' = NoResponse
    /\ emitted' = <<>>
    /\ ended' = NoneEnded
    /\ UNCHANGED <<booted, LAMINAR_AVAILABLE, test_config, test_status,
                   test_results, stop_event, config_file, results_file, runs,
                   snapshot>>
    /\ UNCHANGED stop_pending
    /\ inbox' = Delivered
    /\ UNCHANGED <<narrative, parsed>>

\* ---------------------------------------------------------- specification
Threads ==
    \/ \E r \in Slots, extRaises \in BOOLEAN : RunBegin(r, extRaises)
    \/ \E r \in Slots, raises \in BOOLEAN : AgentReturn(r, raises)
    \/ \E r \in Slots, hasAction \in BOOLEAN, hasError \in BOOLEAN :
          RunStep(r, hasAction, hasError)
    \/ \E r \in Slots : RunExhausted(r)

\* The server with its background runs.
Next ==
    \/ Startup
    \/ \E data \in RunRequests : start_test(data)
    \/ stop_test
    \/ Threads

Spec == Init /\ [][Next]_vars

\* The server with its background runs while the clock advances.
NextClock ==
    \/ Next
    \/ Tick

SpecClock == Init /\ [][NextClock]_vars

\* The persistence and pause handlers, with one start request and one
\* configuration request, and no thread scheduled.
PersistStart == {<< <<"api_key", Key>> >>}
PersistConfig == {<< <<"provider", "openai">>, <<"api_key", Key2>> >>}
NextPersist ==
    \/ Startup
    \/ \E data \in PersistStart : start_test(data)
    \/ \E data \in PersistConfig : update_config(data)
    \/ pause_test
    \/ load_sample_data
    \/ save_results
    \/ load_results
    \/ clear_results

SpecPersist == Init /\ [][NextPersist]_vars

\* The configuration handler alone, over every request body.
NextConfig ==
    \/ Startup
    \/ \E data \in ConfigRequests : update_config(data)

SpecConfig == Init /\ [][NextConfig]_vars

\* The background runs together with the handlers that write Status and
\* Results beside them: one start request, pause, sample data, clear.
NextBackground ==
    \/ Startup
    \/ \E data \in PersistStart : start_test(data)
    \/ pause_test
    \/ load_sample_data
    \/ clear_results
    \/ load_results
    \/ Threads

SpecBackground == Init /\ [][NextBackground]_vars

\* The background runs with a subscriber that connects at any time.
NextConnect ==
    \/ Startup
    \/ \E data \in PersistStart : start_test(data)
    \/ stop_test
    \/ handle_connect
    \/ Threads

SpecConnect == Init /\ [][NextConnect]_vars

\* The background runs with the first stretch of a thread in two steps.
ThreadsFine ==
    \/ \E r \in Slots : RunEnter(r)
    \/ \E r \in Slots, extRaises \in BOOLEAN : RunBeginEntered(r, extRaises)
    \/ \E r \in Slots, raises \in BOOLEAN : AgentReturn(r, raises)
    \/ \E r \in Slots, hasAction \in BOOLEAN, hasError \in BOOLEAN :
          RunStep(r, hasAction, hasError)
    \/ \E r \in Slots : RunExhausted(r)

NextFine ==
    \/ Startup
    \/ \E data \in PersistStart : start_test(data)
    \/ stop_test
    \/ pause_test
    \/ clear_results
    \/ ThreadsFine

SpecFine == Init /\ [][NextFine]_vars

\* The server with its background runs and restarts of the process.
NextRestart ==
    \/ Startup
    \/ \E data \in PersistStart : start_test(data)
    \/ Restart
    \/ Threads

SpecRestart == Init /\ [][NextRestart]_vars

\* The request handlers alone, over every request body, with no thread
\* scheduled.
NextRequests ==
    \/ Startup
    \/ \E data \in StartRequests : start_test(data)
    \/ stop_test

SpecRequests == Init /\ [][NextRequests]_vars

\* The server with its background runs, where a started thread is scheduled
\* and agent.run() returns or raises: every stretch of a run that can be
\* taken is eventually taken.
FairSpec ==
    /\ Spec
    /\ \A r \in Slots :
          /\ WF_vars(\E extRaises \in BOOLEAN : RunBegin(r, extRaises))
          /\ WF_vars(\E raises \in BOOLEAN : AgentReturn(r, raises))
          /\ WF_vars(\/ \E hasAction \in BOOLEAN, hasError \in BOOLEAN :
                           RunStep(r, hasAction, hasError)
                     \/ RunExhausted(r))

\* ------------------------------------------------------------ properties
SupportedProviders == {"google", "openai", "groq", "ollama"}

\* The slots whose thread is started by the step.
Launched == {r \in Slots : runs[r].pc = "idle" /\ runs'[r].pc = "start"}

\* The payloads of the events of a given name the step emitted, in order.
Payloads(name) ==
    LET F[k \in 0..Len(emitted)] ==
            IF k = 0 THEN <<>>
            ELSE IF emitted[k].event = name THEN Append(F[k - 1], emitted[k].data)
            ELSE F[k - 1]
    IN  F[Len(emitted)]

\* C1: from the default Configuration (no persisted file, browser-use
\* installed), a start request that leaves a non-empty website URL and a
\* non-empty credential for the chosen provider (or chooses ollama) resets
\* Status and Results, launches exactly one background run and answers
\* "started".
C1_StartFromDefault ==
    [][ ( /\ booted /\ LAMINAR_AVAILABLE
          /\ test_config = DefaultConfig
          /\ response'.op = "start"
          /\ test_config'["website_url"] # ""
          /\ \/ test_config'["provider"] = "ollama"
             \/ /\ test_config'["provider"] = "google"
                /\ test_config'["google_api_key"] # "" )
        => ( /\ response'.code = 200 /\ response'.status = "started"
             /\ test_status'.is_running /\ ~test_status'.is_paused
             /\ test_status'.progress_percentage = 0
             /\ test_results' = EmptyResults
             /\ Cardinality(Launched) = 1 ) ]_vars

\* C2: with a non-empty website URL after the merge, a start request for
\* provider google, openai or groq is answered 400 exactly when that
\* provider's merged credential is empty, and a start request for provider
\* ollama is never answered 400.
C2_CredentialValidation ==
    (response.op = "start" /\ test_config["website_url"] # "") =>
        /\ test_config["provider"] = "google" =>
              (response.code = 400 <=> test_config["google_api_key"] = "")
        /\ test_config["provider"] = "openai" =>
              (response.code = 400 <=> test_config["openai_api_key"] = "")
        /\ test_config["provider"] = "groq" =>
              (response.code = 400 <=> test_config["groq_api_key"] = "")
        /\ test_config["provider"] = "ollama" => response.code # 400

\* A start request for openai was answered 400 while the google credential
\* is set and the openai credential is empty.
C2_Witness ==
    /\ response.op = "start" /\ response.code = 400
    /\ test_config["website_url"] # ""
    /\ test_config["provider"] = "openai"
    /\ test_config["google_api_key"] # ""
    /\ test_config["openai_api_key"] = ""

\* C3: a start request answered 400 launches no background run, leaves
\* Status and Results (and the persisted results) as they were and does not
\* clear the cancellation flag.
C3_RejectedStartNoEffect ==
    [][ (response'.op = "start" /\ response'.code = 400)
        => UNCHANGED <<test_status, test_results, results_file, stop_event, runs>> ]_vars

\* A start request was answered 400 while the cancellation flag is set and
\* Status and Results are not in their initial state.
C3_Witness ==
    /\ response.op = "start" /\ response.code = 400
    /\ stop_event
    /\ test_results # EmptyResults
    /\ test_status # DefaultStatus

\* C4: (with browser-use installed) a start request whose provider, after
\* the merge, is not one of google, openai, groq, ollama is answered 4xx and
\* launches no run, and no background run reaches create_llm with such a
\* provider.
C4_UnsupportedProviderRejected ==
    [][ /\ ( /\ LAMINAR_AVAILABLE
              /\ response'.op = "start"
              /\ test_config'["provider"] \notin SupportedProviders )
            => (response'.code \in 400..499 /\ Launched = {})
        /\ \A r \in Slots :
            (runs[r].pc = "start" /\ runs'[r].pc # "start")
            => test_config["provider"] \in SupportedProviders ]_vars


\* C5: every launched background run ends, and the step that ends it emits
\* test_completed and leaves Status.is_running false, however the run ends.
C5_RunReachesTerminalBroadcast ==
    \A r \in Slots :
        (runs[r].pc = "start") ~>
            ( /\ ended.run = r
              /\ Payloads("test_completed") # <<>>
              /\ ~test_status.is_running )

\* A launched run has ended after it saw the cancellation flag, with its
\* terminal broadcast.
C5_Witness ==
    /\ ended.outcome = "stopped"
    /\ Payloads("test_completed") # <<>>
    /\ ~test_status.is_running

\* C6: the test_completed event of a run that ended with an exception does
\* not carry the status ("completed") of a run that succeeded.
C6_FailedRunFlagged ==
    ended.outcome = "errored" =>
        /\ Payloads("test_completed") # <<>>
        /\ \A k \in 1..Len(Payloads("test_completed")) :
              Payloads("test_completed")[k].status # "completed"

\* C7: when a run ends with an exception, the step that ends it leaves, as
\* the last of Results.bug_reports, a report of severity CRITICAL that
\* describes the failure, and the thread ends through the suite's finally
\* clause (status_update and test_completed are emitted).
C7_FailureBecomesCriticalReport ==
    ended.outcome = "errored" =>
        LET bugs == test_results.bug_reports
        IN  /\ bugs # <<>>
            /\ bugs[Len(bugs)].severity = "CRITICAL"
            /\ bugs[Len(bugs)].title = "Test Suite Execution Error"
            /\ runs[ended.run].pc = "idle"
            /\ Payloads("status_update") = <<test_status>>
            /\ Payloads("test_completed") # <<>>

\* A run ended with an exception while bug_reports already held a report.
C7_Witness ==
    /\ ended.outcome = "errored"
    /\ Len(test_results.bug_reports) >= 2

\* C8: a stop request leaves every background run where it is (a run inside
\* agent.run() stays there); a run ends as stopped only in a stretch that
\* holds a check of the flag (before agent.run(), or at the head of a loop
\* iteration) taken with the flag set; the return of agent.run() with the
\* flag set still goes on to the loop; and a run that finds the flag set at
\* the check before agent.run() ends without calling it.
C8_CooperativeCancellation ==
    [][ /\ response'.op = "stop" => runs' = runs
        /\ ended'.outcome = "stopped"
             => (stop_event /\ runs[ended'.run].pc \in {"start", "loop"})
        /\ \A r \in Slots :
             /\ (runs[r].pc = "agent" /\ runs'[r].pc # "agent")
                  => (runs'[r].pc = "loop" \/ ended' = Ended(r, "errored"))
             /\ (runs[r].pc = "start" /\ runs'[r].pc # "start" /\ stop_event)
                  => (runs'[r].pc = "idle" /\ runs[r].invocations = 0
                      /\ ended'.run = r) ]_vars

\* A stop request has just been answered while a run is inside agent.run().
C8_Witness ==
    /\ response.op = "stop"
    /\ \E r \in Slots : runs[r].pc = "agent"

\* What a run leaves when it ends: the status message and the payloads of
\* its test_completed events.
Terminal == <<test_status.status_message, Payloads("test_completed")>>
CompletedTerminal ==
    <<"Professional testing completed", <<[status |-> "completed"]>>>>

\* C9: a run that processed everything ends with the terminal status and
\* broadcast of Completed, and a run that ends Stopped or Errored ends with
\* a terminal status message or broadcast different from that one.
C9_TerminalStatesDistinguishable ==
    /\ ended.outcome = "completed" => Terminal = CompletedTerminal
    /\ ended.outcome \in {"stopped", "errored"} => Terminal # CompletedTerminal

\* C10: a stop request, in whatever state it arrives, sets the cancellation
\* flag, sets is_running and is_paused false, emits status_update (with the
\* new Status) and test_stopped, answers "stopping", and leaves Results and
\* Configuration as they were.
C10_StopAlways ==
    [][ response'.op = "stop" =>
          /\ stop_event'
          /\ ~test_status'.is_running /\ ~test_status'.is_paused
          /\ emitted' = <<Ev("status_update", test_status'),
                          Ev("test_stopped", [status |-> "stopping"])>>
          /\ response'.code = 200 /\ response'.status = "stopping"
          /\ UNCHANGED <<test_results, test_config>> ]_vars

\* A stop request has just been answered while a run is in its loop and has
\* published a step.
C10_Witness ==
    /\ response.op = "stop"
    /\ stop_event
    /\ \E r \in Slots : runs[r].pc = "loop" /\ runs[r].i > 0
    /\ test_results.test_cases # <<>>

\* A Configuration start_test has no reason to refuse: a website URL, a
\* known provider with its credential (or ollama), and a test_focus.
Startable(cfg) ==
    /\ cfg["website_url"] # ""
    /\ "test_focus" \in DOMAIN cfg
    /\ \/ cfg["provider"] = "ollama"
       \/ /\ cfg["provider"] \in {"google", "openai", "groq"}
          /\ cfg[ApiKeyName(cfg["provider"])] # ""

\* C11: a start request is accepted whether or not a background run is
\* active: with browser-use installed and a startable Configuration it is
\* answered 200 and launches one more run while the active runs go on as
\* they are; and every active run that processes a history step overwrites
\* the shared Results with its own test case and bug reports.
C11_NoMutualExclusion ==
    [][ /\ ( /\ response'.op = "start" /\ LAMINAR_AVAILABLE
              /\ Startable(test_config') )
            => ( /\ response'.code = 200
                 /\ Cardinality(Launched) = 1
                 /\ test_status'.is_running
                 /\ \A r \in Slots : runs[r].pc # "idle" => runs'[r] = runs[r] )
        /\ \A r \in Slots :
              (runs[r].pc = "loop" /\ runs'[r].pc = "loop" /\ runs'[r] # runs[r])
              => ( /\ test_results'.bug_reports = runs'[r].bug_reports
                   /\ test_results'.test_cases =
                        <<TestCase("IN_PROGRESS", runs'[r].test_steps)>> ) ]_vars

\* Two background runs are active at once, and each has written a processed
\* step to the shared Results.
C11_Witness ==
    /\ \A r \in Slots : runs[r].pc = "loop" /\ runs[r].i > 0
    /\ Cardinality(Slots) >= 2
    /\ test_status.is_running

\* C12: the bug reports of Results have pairwise distinct identifiers.
C12_UniqueBugIds ==
    LET bugs == test_results.bug_reports
    IN  \A i, j \in 1..Len(bugs) : i # j => bugs[i].bug_id # bugs[j].bug_id

\* The step emits an event of the given name that carries the given data.
Broadcasts(name, data) ==
    \E k \in 1..Len(emitted') : emitted'[k] = Ev(name, data)

\* C13: every step of the running server that writes Status emits a
\* status_update with the new Status, every step that writes Results emits a
\* results_update with the new Results, and every step that writes
\* Configuration emits an event.
C13_WriteThenBroadcast ==
    [][ booted =>
          /\ test_status' # test_status => Broadcasts("status_update", test_status')
          /\ test_results' # test_results => Broadcasts("results_update", test_results')
          /\ test_config' # test_config => emitted' # <<>> ]_vars

\* C14: a configuration request that names provider P (google, openai or
\* groq) and a non-empty api_key, in either order, sets P's credential to
\* that value, leaves the credentials of the other two providers as they
\* were, and persists the Configuration it leaves.
C14_ApiKeyRouting ==
    [][ \A data \in ConfigRequests :
          ( /\ update_config(data)
            /\ HasKey(data, "provider") /\ HasKey(data, "api_key") )
          => LET P == ValueOf(data, "provider")
                 value == ValueOf(data, "api_key")
             IN  /\ test_config'["provider"] = P
                 /\ test_config'[ApiKeyName(P)] = value
                 /\ \A Q \in ConfigProviders \ {P} :
                       test_config'[ApiKeyName(Q)] = test_config[ApiKeyName(Q)]
                 /\ config_file' = <<test_config'>> ]_vars

\* A configuration request has set the credential of openai while the
\* credential google had before is still there.
C14_Witness ==
    /\ response.op = "config"
    /\ test_config["provider"] = "openai"
    /\ test_config["openai_api_key"] = Key2
    /\ test_config["google_api_key"] = Key
    /\ test_config["groq_api_key"] = ""

\* C15: load_results with no persisted results file is answered 404, leaves
\* Results, Status and Configuration (and the files) as they were and emits
\* no event.
C15_LoadMissing404 ==
    [][ (response'.op = "load_results" /\ results_file = <<>>)
        => ( /\ response'.code = 404
             /\ emitted' = <<>>
             /\ UNCHANGED <<test_results, test_status, test_config,
                            results_file, config_file>> ) ]_vars

\* load_results was answered 404 after the Configuration had been changed.
C15_Witness ==
    /\ response.op = "load_results" /\ response.code = 404
    /\ results_file = <<>>
    /\ test_config["openai_api_key"] = Key2

\* The live state is the one the last save_results request saw.
Restored ==
    /\ test_results = snapshot.state[1].test_results
    /\ test_status = snapshot.state[1].test_status
    /\ test_config = snapshot.state[1].test_config

\* load_results has just loaded a file, after a save_results request
\* followed only by steps of the given kinds (and loads).
LoadedAfter(kinds) ==
    /\ response.op = "load_results" /\ response.code = 200
    /\ snapshot.state # <<>>
    /\ snapshot.ops \subseteq kinds

\* C16 as stated: after save_results, any sequence of clear_results,
\* load_sample_data, update_config and pause requests followed by
\* load_results restores Results, Status and Configuration to the values
\* they had at the save.
C16_RoundTripAnyMutation ==
    LoadedAfter({"clear", "sample", "config", "pause"}) => Restored

\* C16 amended: after save_results, any sequence of update_config and pause
\* requests followed by load_results restores Results, Status and
\* Configuration to the values they had at the save.
C16_RoundTrip ==
    LoadedAfter({"config", "pause"}) => Restored

\* load_results has restored a running Status after a save_results request
\* followed by a configuration update and a pause.
C16_Witness ==
    /\ LoadedAfter({"config", "pause"})
    /\ snapshot.ops = {"config", "pause"}
    /\ test_status.is_running /\ ~test_status.is_paused
    /\ test_config["openai_api_key"] = ""

\* C17: a pause request received while Status.is_running is true flips
\* is_paused and answers "paused" or "resumed" accordingly, leaving
\* is_running as it is; received while is_running is false it is answered
\* 400 and leaves Status as it was.  Either way it leaves Results,
\* Configuration, the cancellation flag and the runs alone.
C17_PauseToggle ==
    [][ response'.op = "pause" =>
          /\ test_status.is_running =>
                /\ response'.code = 200
                /\ test_status'.is_paused = ~test_status.is_paused
                /\ response'.status =
                      (IF test_status.is_paused THEN "resumed" ELSE "paused")
                /\ test_status'.is_running
          /\ ~test_status.is_running =>
                /\ response'.code = 400
                /\ test_status' = test_status
          /\ UNCHANGED <<test_results, test_config, stop_event, runs>> ]_vars

\* A running test was paused and has just been resumed.
C17_Witness ==
    /\ response.op = "pause" /\ response.status = "resumed"
    /\ test_status.is_running /\ ~test_status.is_paused
    /\ test_status.status_message = "Professional testing resumed"

\* C18: while Status.is_paused is true every stretch of a background run
\* can still be taken (the thread start, the return of agent.run(), the
\* next history step, the end of the history), and no stretch of a run
\* writes is_paused.
C18_PauseAdvisory ==
    /\ [](\A r \in Slots :
            test_status.is_paused =>
              /\ runs[r].pc = "start" =>
                    ENABLED (\E extRaises \in BOOLEAN : RunBegin(r, extRaises))
              /\ runs[r].pc = "agent" => ENABLED AgentReturn(r, FALSE)
              /\ (runs[r].pc = "loop" /\ runs[r].i < MaxSteps) =>
                    ENABLED (\E hasAction, hasError \in BOOLEAN :
                                RunStep(r, hasAction, hasError))
              /\ runs[r].pc = "loop" => ENABLED RunExhausted(r))
    /\ [][ (booted /\ response'.op = "none")
           => test_status'.is_paused = test_status.is_paused ]_vars

\* A run that was paused after its launch and not resumed has called the
\* agent, processed the whole history it follows and ended with its
\* terminal broadcast.
C18_Witness ==
    /\ ended.outcome = "completed"
    /\ test_status.is_paused
    /\ test_results.test_cases # <<>>
    /\ Len(test_results.test_cases[1].test_steps) = MaxSteps
    /\ Payloads("test_completed") # <<>>

\* The coverage history before and after the step.
CoverageBefore == test_results.coverage_reports
CoverageAfter == test_results'.coverage_reports

\* C19 as stated: a step that records coverage (a run that ends after its
\* history, load_sample_data) keeps the snapshots recorded before in their
\* order and adds one at the end, and the history gets shorter only in a
\* start or clear_results step.
C19_CoverageAppendOnlyAlways ==
    [][ /\ (ended'.outcome = "completed" \/ response'.op = "load_sample_data")
            => ( /\ Len(CoverageAfter) = Len(CoverageBefore) + 1
                 /\ SubSeq(CoverageAfter, 1, Len(CoverageBefore)) = CoverageBefore )
        /\ Len(CoverageAfter) < Len(CoverageBefore)
            => response'.op \in {"start", "clear_results"} ]_vars

\* C19 amended: a run that ends after its history keeps the snapshots
\* recorded before in their order and adds its own at the end; any other
\* step leaves the history as it is, except that start and clear_results
\* empty it, load_sample_data replaces it by the demonstration snapshot and
\* load_results (like the start-up load) by the persisted history.
C19_CoverageAppendOnly ==
    [][ /\ ended'.outcome = "completed"
            => CoverageAfter = Append(CoverageBefore, [coverage |-> Coverage85])
        /\ \/ CoverageAfter = CoverageBefore
           \/ /\ ended'.run # 0
              /\ CoverageAfter = Append(CoverageBefore, [coverage |-> Coverage85])
           \/ /\ response'.op \in {"start", "clear_results"}
              /\ CoverageAfter = <<>>
           \/ /\ response'.op = "load_sample_data"
              /\ CoverageAfter = <<[coverage |-> SampleCoverage]>>
           \/ /\ (response'.op = "load_results" \/ ~booted)
              /\ results_file # <<>>
              /\ CoverageAfter = results_file[1].test_results.coverage_reports ]_vars

\* A run has ended after its history and added its snapshot behind the one
\* load_sample_data had recorded while the run was active.
C19_Witness ==
    /\ ended.outcome = "completed"
    /\ Len(test_results.coverage_reports) = 2
    /\ test_results.coverage_reports[1].coverage = SampleCoverage
    /\ test_results.coverage_reports[2].coverage = Coverage85

\* C20: load_sample_data leaves Results equal to the demonstration data in
\* every field, whatever Results held before (the fields the data does not
\* name are as in empty Results), persists the state it leaves, emits one
\* results_update with the new Results, and leaves Status and Configuration
\* as they were.
C20_SampleDataOverwrites ==
    [][ response'.op = "load_sample_data" =>
          /\ test_results' = Update(EmptyResults, SampleData)
          /\ results_file' =
                save_results_to_file(test_status', test_results', test_config')
          /\ emitted' = <<Ev("results_update", test_results')>>
          /\ UNCHANGED <<test_status, test_config>> ]_vars

\* C21: a connect is answered with a connected event, a status_update that
\* carries the Status of that moment and a results_update that carries the
\* Results of that moment, in this order, and these three are the first
\* events the subscriber receives: every broadcast it gets comes after them.
C21_SnapshotOnConnect ==
    /\ [](inbox # <<>> =>
            /\ Len(inbox) >= 3
            /\ inbox[1] = "connected"
            /\ inbox[2] = "status_update"
            /\ inbox[3] = "results_update")
    /\ [][ response'.op = "connect" =>
             /\ emitted' = <<Ev("connected", [status |-> "connected"]),
                             Ev("status_update", test_status'),
                             Ev("results_update", test_results')>>
             /\ UNCHANGED <<test_status, test_results>> ]_vars

\* A subscriber connected while a run was active and has received, after
\* its snapshot, the results_update of a history step.
C21_Witness ==
    /\ Len(inbox) = 4
    /\ inbox[1] = "connected"
    /\ inbox[4] = "results_update"
    /\ \E r \in Slots : runs[r].pc = "loop" /\ runs[r].i > 0

\* C22: a started run calls agent.run() at most once, and when that call
\* raises the run ends (as errored) in the same step, with no further call.
C22_NoRetry ==
    /\ [](\A r \in Slots : runs[r].invocations <= 1)
    /\ [][ \A r \in Slots :
             (runs[r].pc = "agent" /\ runs'[r].pc # "agent")
             => \/ /\ runs'[r].pc = "loop"
                   /\ runs'[r].invocations = runs[r].invocations
                \/ /\ ended' = Ended(r, "errored")
                   /\ runs'[r] = IdleRun ]_vars

\* A run has ended because its call of agent.run() raised.
C22_Witness ==
    /\ ended.outcome = "errored"
    /\ test_results.bug_reports # <<>>
    /\ test_results.bug_reports[Len(test_results.bug_reports)].description =
          "Professional test suite execution failed: agent.run failed"

\* C23: when the agent call of a test case raises, the Results the run
\* leaves hold that test case marked as an error.
C23_FailedCaseMarkedError ==
    ( /\ ended.outcome = "errored"
      /\ test_results.bug_reports # <<>>
      /\ test_results.bug_reports[Len(test_results.bug_reports)].description =
            "Professional test suite execution failed: agent.run failed" )
    => \E k \in 1..Len(test_results.test_cases) :
          test_results.test_cases[k].status \in {"error", "ERROR"}

\* C25: from a state a stop request has left (the cancellation flag set,
\* is_running false), no step but a start request makes is_running true.
C25_StoppedStaysNotRunning ==
    [][ (stop_event /\ ~test_status.is_running /\ response'.op # "start")
        => ~test_status'.is_running ]_vars

\* C26: a run that was active when stop was requested, and has not ended
\* since, calls agent.run() no more and processes no further history step
\* (each of these comes right after a check of the flag), whatever requests
\* have arrived since the stop.
C26_StopReachesActiveRuns ==
    [][ \A r \in stop_pending :
          /\ runs'[r].invocations <= runs[r].invocations
          /\ runs'[r].i <= runs[r].i ]_vars

\* C27: Status.is_paused is true only in states where Status.is_running is
\* true.
C27_PausedOnlyWhileRunning ==
    test_status.is_paused => test_status.is_running

\* C28: after a configuration request and after a start request,
\* api_keys_configured is true exactly when the google, openai or groq
\* credential is non-empty.
C28_KeysConfiguredDerived ==
    response.op \in {"config", "start"} =>
        ( test_config["api_keys_configured"]
          <=> ( \/ test_config["google_api_key"] # ""
                \/ test_config["openai_api_key"] # ""
                \/ test_config["groq_api_key"] # "" ) )

\* C29: whatever its answer, a start request leaves in Configuration, live
\* and persisted, the provider it names, the non-empty api_key it carries
\* as the credential of the provider then selected (google, openai or
\* groq), and the website_url it names; it adds no key to Configuration.
C29_StartMergesBeforeValidating ==
    [][ \A data \in StartRequests :
          start_test(data) =>
            /\ HasKey(data, "provider")
                  => test_config'["provider"] = ValueOf(data, "provider")
            /\ ( /\ HasKey(data, "api_key") /\ ValueOf(data, "api_key") # ""
                 /\ test_config'["provider"] \in ConfigProviders )
                  => test_config'[ApiKeyName(test_config'["provider"])]
                       = ValueOf(data, "api_key")
            /\ HasKey(data, "website_url")
                  => test_config'["website_url"] = ValueOf(data, "website_url")
            /\ DOMAIN test_config' = DOMAIN test_config
            /\ config_file' = <<test_config'>> ]_vars

\* A start request that named openai (and a key that is no field) was
\* answered 400, and openai is the provider of the live and the persisted
\* Configuration.
C29_Witness ==
    /\ response.op = "start" /\ response.code = 400
    /\ test_config["provider"] = "openai"
    /\ test_config["openai_api_key"] = ""
    /\ config_file = <<test_config>>
    /\ "report_format" \notin DOMAIN test_config

\* C30: clear_results, with or without an active run, leaves every list of
\* Results empty and every field of Status at its initial value, emits a
\* results_update and a status_update that carry them, persists the state
\* it leaves, and leaves Configuration, the cancellation flag and the runs
\* as they were.
C30_ClearResets ==
    [][ response'.op = "clear_results" =>
          /\ test_results' = EmptyResults
          /\ test_status' = DefaultStatus
          /\ emitted' = <<Ev("results_update", EmptyResults),
                          Ev("status_update", DefaultStatus)>>
          /\ results_file' =
                save_results_to_file(DefaultStatus, EmptyResults, test_config)
          /\ UNCHANGED <<test_config, stop_event, runs, config_file>> ]_vars

\* clear_results has just been answered while a run is in its loop and has
\* published a step.
C30_Witness ==
    /\ response.op = "clear_results"
    /\ \E r \in Slots : runs[r].pc = "loop" /\ runs[r].i > 0
    /\ test_results = EmptyResults
    /\ ~test_status.is_running

\* The titles of the blocks of a narrative that match the template, in order.
RECURSIVE GoodTitles(_)
GoodTitles(segs) ==
    IF segs = <<>> THEN <<>>
    ELSE (IF Head(segs) \in GoodSegments THEN <<SegmentTitle(Head(segs))>>
          ELSE <<>>) \o GoodTitles(Tail(segs))

\* C24: for a narrative with N blocks that match the template,
\* parseBugReports returns N records, one per block in order, each with a
\* non-empty title, description, expected and actual result and with steps
\* that begin with no enumeration marker; with no matching block it returns
\* the empty list.
C24_ParseBugReports ==
    parsed.called =>
        LET reports == parsed.reports
            titles == GoodTitles(narrative)
        IN  /\ Len(reports) = Len(titles)
            /\ \A k \in 1..Len(reports) :
                  /\ reports[k].title = titles[k]
                  /\ reports[k].bug_id = k
                  /\ reports[k].title # "" /\ reports[k].description # ""
                  /\ reports[k].expected_behavior # ""
                  /\ reports[k].actual_behavior # ""
                  /\ reports[k].steps_to_reproduce # <<>>
                  /\ \A j \in 1..Len(reports[k].steps_to_reproduce) :
                        /\ reports[k].steps_to_reproduce[j] # <<>>
                        /\ Head(reports[k].steps_to_reproduce[j]) \notin Markers

\* The parser has returned two records for a narrative of a block that does
\* not match followed by two that do.
C24_Witness ==
    /\ parsed.called
    /\ narrative = <<"no_actual", "full", "compact">>
    /\ Len(parsed.reports) = 2
    /\ parsed.reports[1].steps_to_reproduce =
          << <<"O", "p", "e", "n">>, <<"L", "o", "g", " ", "i", "n">> >>

\* The processed steps of a run that carried an error / an action.
WithError(steps) == SelectSeq(steps, LAMBDA st : st.error)
WithAction(steps) == SelectSeq(steps, LAMBDA st : st.action)

\* The run of slot r leaves the loop over the history in this step and
\* returns its results.
FinishesHistory(r) ==
    /\ runs[r].pc = "loop"
    /\ ended'.run = r
    /\ ended'.outcome \in {"completed", "stopped"}

\* C31: when a run finishes processing the history, the results hold its one
\* final test case, FAILED if and only if a processed step carried an error
\* and COMPLETED otherwise; there is one bug report per processed step with
\* an error and one step record per processed step with an action; a step
\* that comes after stop_event was seen set adds nothing.
C31_FinalCaseFromProcessedSteps ==
    [][\A r \in Slots :
          /\ FinishesHistory(r) =>
                LET done == runs[r].processed
                    cases == test_results'.test_cases
                IN  /\ Len(cases) = 1
                    /\ cases[1].status =
                          (IF WithError(done) # <<>> THEN "FAILED" ELSE "COMPLETED")
                    /\ Len(test_results'.bug_reports) = Len(WithError(done))
                    /\ Len(cases[1].test_steps) = Len(WithAction(done))
                    /\ Len(done) = runs[r].i
                    /\ (ended'.outcome = "stopped" => stop_event)
          /\ \A hasAction \in BOOLEAN, hasError \in BOOLEAN :
                RunStep(r, hasAction, hasError) /\ stop_event =>
                    /\ ended'.run = r
                    /\ runs'[r].pc = "idle"
                    /\ runs'[r].processed = <<>>]_vars

\* A run has processed one step, which had an error and no action, was
\* stopped before the end of the history, and has left a FAILED test case
\* with no step record and one bug report.
C31_Witness ==
    /\ ended.outcome = "stopped"
    /\ Len(test_results.test_cases) = 1
    /\ test_results.test_cases[1].status = "FAILED"
    /\ test_results.test_cases[1].test_steps = <<>>
    /\ Len(test_results.bug_reports) = 1
    /\ test_results.bug_reports[1].severity = "MEDIUM"

\* C32: when the process is restarted right after a run has completed
\* normally, with no other run active, the Status loaded at start-up has
\* is_running false.
C32_RestartedNotRunning ==
    [][(/\ Restart
        /\ ended.outcome = "completed"
        /\ \A r \in Slots : runs[r].pc = "idle")
       => ~test_status'.is_running]_vars

====
